---- MODULE Spec2Model ----
(***************************************************************************)
(* Poll scheduler of the EASUN inverter add-on (addon/easun-inverter):     *)
(* main.py's outer/inner polling loop, Inverter.query with its bounded     *)
(* retry, Inverter.read_snapshot, and the 3-phase aggregation.             *)
(*                                                                         *)
(* The model starts where main() enters its outer loop (main.py:41); the   *)
(* start-up result `connected` and the configuration are fixed in Init.    *)
(* The message-bus client is a collaborator: a publish either returns or   *)
(* raises, and `connected` may be either value when the loop is entered.   *)
(* The wall clock is kept relative: last_qpiri[d] holds now - last_ts for  *)
(* the device (the only use the code makes of either value, main.py:106),  *)
(* saturated just above 24 hours.                                          *)
(***************************************************************************)
EXTENDS Integers, Sequences, FiniteSets, TLC

\* ---------------------------------------------------------------- bounds
\* read_snapshot calls explored with two devices (three cycles)
MaxPolls == 6
\* with one device (two Q1 periods at read_interval 7)
CadencePolls == 8
\* with three devices (one cycle and the start of the next)
PhasePolls == 4
\* with four devices (one cycle and the start of the next)
MixedPolls == 5
\* longest response explored (tokens) and longest probe token (characters)
MaxTokens == 22
MaxTokLen == 2
\* longest byte string handed to the checksum
MaxBody == 3
\* largest read_interval for which the Q1 divisor is computed
MaxInterval == 90
\* value above which loop_count is kept by its residue (unbounded in Python)
LoopCap == 4

\* ------------------------------------------------------ program constants
DAY == 24 * 3600
Q1Floor == 30
QueryRetries == 2
ExtRetries == 1
NoEntry == 0 - 1
Unlimited == 0 - 1

Sat(x) == IF x > DAY THEN DAY + 1 ELSE x
Max(a, b) == IF a >= b THEN a ELSE b
Min(a, b) == IF a <= b THEN a ELSE b

\* ------------------------------------------------------------ commands
Commands == {"QPIGS", "QPIGS2", "QMOD", "Q1", "QPIRI"}

\* retries argument each caller passes to Inverter.query
RetriesOf(cmd) == IF cmd \in {"Q1", "QPIRI"} THEN ExtRetries ELSE QueryRetries

\* ------------------------------------------------------ response lines
\* A token is what remains of one space-separated fragment after
\* sanitising: ok says whether it parses under the numeric kind of its
\* position, val is the parsed number.
Tok(v) == [ok |-> TRUE, val |-> v]
BadTok == [ok |-> FALSE, val |-> 0]

\* PI30 QPIGS mapping, indices 0..20 of the source are 1..21 here
field_keys ==
  << "ac_input_voltage_v", "ac_input_frequency_hz", "ac_output_voltage_v",
     "ac_output_frequency_hz", "ac_output_apparent_power_va",
     "ac_output_active_power_w", "ac_output_load_percent", "bus_voltage_v",
     "battery_voltage_v", "battery_charging_current_a",
     "battery_capacity_percent", "inverter_heatsink_temp_c",
     "pv_input_current_a", "pv_input_voltage_v", "battery_voltage_scc_v",
     "battery_discharge_current_a", "device_status_bits", "rsv1", "rsv2",
     "pv_input_power_w", "device_status2_bits" >>

StatusKeys == {"device_status_bits", "device_status2_bits"}

EmptyRecord == [k \in {} |-> 0]

\* Inverter.parse_qpigs on the token list of a line: a key is present iff
\* its position exists and its token parses (status fields are kept raw).
parse_qpigs(parts) ==
  LET idx == {i \in 1..Min(Len(parts), Len(field_keys)) :
                 field_keys[i] \in StatusKeys \/ parts[i].ok}
      pos(k) == CHOOSE i \in idx : field_keys[i] = k
  IN [k \in {field_keys[i] : i \in idx} |-> parts[pos(k)].val]

\* the QPIGS2 part of read_snapshot: PV2 keys are added to data
merge_qpigs2(data, line2) ==
  IF line2.paren /\ Len(line2.parts) >= 3
  THEN LET add == {k \in {"pv2_input_current_a", "pv2_input_voltage_v",
                          "pv2_input_power_w"} :
                      line2.parts[IF k = "pv2_input_current_a" THEN 1
                                  ELSE IF k = "pv2_input_voltage_v" THEN 2
                                  ELSE 3].ok}
           val(k) == line2.parts[IF k = "pv2_input_current_a" THEN 1
                                 ELSE IF k = "pv2_input_voltage_v" THEN 2
                                 ELSE 3].val
       IN [k \in (DOMAIN data) \cup add |->
             IF k \in add THEN val(k) ELSE data[k]]
  ELSE data

\* int(data.get(key, 0) or 0)
GetInt(data, key) == IF key \in DOMAIN data THEN data[key] ELSE 0

\* -------------------------------------------------- inputs: wire contents
NoResp == [kind |-> "none"]
Line(parts, paren) == [kind |-> "line", parts |-> parts, paren |-> paren]

\* "()"-like answer: a non-empty line without any token
LineNoTokens == Line(<< >>, TRUE)
\* six tokens, the active-power token does not parse
LineShort == Line(<< Tok(230), Tok(50), Tok(230), Tok(50), Tok(120), BadTok >>,
                  TRUE)
\* canonical 21-token answer: 120 VA, 100 W, PV 50 W
LineFull ==
  Line([i \in 1..21 |-> IF i = 5 THEN Tok(120)
                        ELSE IF i = 6 THEN Tok(100)
                        ELSE IF i = 20 THEN Tok(50) ELSE Tok(1)], TRUE)
Pv2Full == Line(<< Tok(2), Tok(90), Tok(10) >>, TRUE)
Pv2Short == Line(<< Tok(2), Tok(90) >>, TRUE)
ExtLine == Line(<< >>, TRUE)

LinesOf(cmd) ==
  IF cmd = "QPIGS" THEN {LineNoTokens, LineShort, LineFull}
  ELSE IF cmd = "QPIGS2" THEN {Pv2Full, Pv2Short}
  ELSE {ExtLine}

\* per-attempt transport outcomes on a session that holds a handle
\* (_write or _readline raises, or the read times out with nothing)
Failures == {[kind |-> "raise"], [kind |-> "empty"]}
\* the only outcome on a session whose open() failed (_ser is None)
NoHandle == [kind |-> "assert"]

\* what a call of the publisher (mqtt.publish_state_for_device) can do:
\* return, or raise a delivery failure
PublishOutcomes == {"ok", "raise"}

\* ----------------------------------------------------------- configuration
PhaseTags == {"L1", "L2", "L3"}
NoPhase == "none"
PhaseRank(p) == IF p = "L1" THEN 1 ELSE IF p = "L2" THEN 2 ELSE 3

Config(ri, grp, phases) ==
  [read_interval |-> ri, group_3phase |-> grp, phases |-> phases]

\* ------------------------------------------------------------------ state
VARIABLES
  cfg,            \* Config: read_interval, group_3phase, inv_cfgs' phase tags
  connected,      \* result of mqtt.connect at start-up
  pc,             \* position of main() in its loops
  inv,            \* index of the session bound to the loop variable `inv`
  ser,            \* per session: "none" (_ser is None), "open", "closed"
  loop_count,
  agg_active, agg_apparent, agg_pv, phases_present,
  data,           \* `data` of the device being polled
  q,              \* the Inverter.query call in progress (NoQuery if none)
  last_qpiri,     \* per device: now - last_qpiri[did], NoEntry if no key
  polls_left,     \* read_snapshot calls still explored (or Unlimited)
  \* history (not read by the program)
  snap,           \* per device: its non-empty data of this cycle, else empty
  issued,         \* per device: commands queried this cycle
  agg_emitted,    \* aggregate record handed to the publisher this cycle
  sinceQ1,        \* per device: consecutive snapshot cycles since its last Q1
  q1Gap,          \* per device: cycles between its last two Q1 queries
  sent_age,       \* per device: time since QPIRI was last sent (process-wide)
  qpiri_gap,      \* per device: time between the last two QPIRI queries
  interrupted,    \* a KeyboardInterrupt was delivered
  rounds,         \* per device: read_snapshot calls since the last sleep
                  \* (2 stands for two or more)
  \* the codec functions called on their own
  arg,            \* the argument: a response line or a byte string
  fn,             \* the function that was applied ("none" before the call)
  result          \* what it returned

vars == << cfg, connected, pc, inv, ser, loop_count, agg_active, agg_apparent,
           agg_pv, phases_present, data, q, last_qpiri, polls_left, snap,
           issued, agg_emitted, sinceQ1, q1Gap, sent_age, qpiri_gap,
           interrupted, rounds, arg, fn, result >>

\* the scheduler's variables and the codec's
mainvars == << cfg, connected, pc, inv, ser, loop_count, agg_active,
               agg_apparent, agg_pv, phases_present, data, q, last_qpiri,
               polls_left, snap, issued, agg_emitted, sinceQ1, q1Gap,
               sent_age, qpiri_gap, interrupted, rounds >>
codec == << arg, fn, result >>

N == Len(cfg.phases)
Devs == 1..N

NoQuery == [cmd |-> "none", retries |-> 0, attempt |-> 0, sends |-> 0,
            wire |-> 0, log |-> << >>, resp |-> NoResp, done |-> FALSE,
            escaped |-> FALSE]
NoAgg == [kind |-> "none"]

NoArg == [kind |-> "none"]

InitMain(configs, conn, budget) ==
  /\ cfg \in configs
  /\ connected \in conn
  /\ pc = "build"
  /\ inv = 0
  /\ ser = [d \in Devs |-> "none"]
  /\ loop_count = 0
  /\ agg_active = 0 /\ agg_apparent = 0 /\ agg_pv = 0
  /\ phases_present = {}
  /\ data = EmptyRecord
  /\ q = NoQuery
  /\ last_qpiri = [d \in Devs |-> NoEntry]
  /\ polls_left = budget
  /\ snap = [d \in Devs |-> EmptyRecord]
  /\ issued = [d \in Devs |-> {}]
  /\ agg_emitted = NoAgg
  /\ sinceQ1 = [d \in Devs |-> NoEntry]
  /\ q1Gap = [d \in Devs |-> 0]
  /\ sent_age = [d \in Devs |-> NoEntry]
  /\ qpiri_gap = [d \in Devs |-> NoEntry]
  /\ interrupted = FALSE
  /\ rounds = [d \in Devs |-> 0]

InitWith(configs, conn, budget) ==
  /\ InitMain(configs, conn, budget)
  /\ arg = NoArg /\ fn = "none" /\ result = EmptyRecord

\* ------------------------------------------------------------- Inverter
\* Inverter.close: closes the handle if there is one and it is open
close(s, d) == IF s[d] = "open" THEN [s EXCEPT ![d] = "closed"] ELSE s

\* entry of Inverter.query(cmd, retries) on the session bound to `inv`
StartQuery(cmd) ==
  /\ q' = [cmd |-> cmd, retries |-> RetriesOf(cmd), attempt |-> 0,
           sends |-> 0, wire |-> 0, log |-> << >>, resp |-> NoResp,
           done |-> FALSE, escaped |-> FALSE]
  /\ issued' = [issued EXCEPT ![inv] = @ \cup {cmd}]
  /\ pc' = "query"

RetOf(cmd) ==
  CASE cmd = "QPIGS" -> "ret_QPIGS"
    [] cmd = "QPIGS2" -> "ret_QPIGS2"
    [] cmd = "QMOD" -> "ret_QMOD"
    [] cmd = "Q1" -> "ret_Q1"
    [] cmd = "QPIRI" -> "ret_QPIRI"

\* variant: range(retries), the first try counted as a retry
Attempts_offbyone(retries) == retries

\* the attempts query() makes in all: range(retries + 1)
Attempts(retries) == retries + 1

\* what one pass of query()'s loop body decides: return the line, or go on
Returns(out) == out.kind = "line"

\* variant: `except OSError`, the failed assert on the handle gets out
Absorbed_ioerror(out) == out.kind # "assert"

\* `except Exception`: whatever _write or _readline raised is caught
Absorbed(out) == TRUE

\* one pass of the for-loop of Inverter.query: _write, _readline, the test
\* of the response, and the except branch; an exception that is not caught
\* ends the query and reaches the caller's handler
QueryAttempt ==
  /\ pc = "query"
  /\ \E out \in (IF ser[inv] = "open"
                 THEN Failures \cup LinesOf(q.cmd) ELSE {NoHandle}) :
       LET n == q.attempt + 1
           escapes == out.kind \in {"raise", "assert"} /\ ~Absorbed(out)
           finished == Returns(out) \/ escapes \/ n >= Attempts(q.retries)
       IN /\ q' = [q EXCEPT !.attempt = n,
                            !.sends = @ + 1,
                            !.wire = IF out.kind = "assert" THEN @ ELSE @ + 1,
                            !.log = Append(@, out),
                            !.resp = IF Returns(out) THEN out ELSE NoResp,
                            !.done = finished,
                            !.escaped = escapes]
          /\ pc' = IF finished THEN RetOf(q.cmd) ELSE "query"
  /\ UNCHANGED << cfg, connected, inv, ser, loop_count, agg_active,
                  agg_apparent, agg_pv, phases_present, data, last_qpiri,
                  polls_left, snap, issued, agg_emitted, sinceQ1, q1Gap,
                  sent_age, qpiri_gap, interrupted,
                  rounds, codec >>

\* ----------------------------------------------------------------- main
\* inv_objs is rebuilt: every session is a fresh Inverter without a handle
Build ==
  /\ pc = "build"
  /\ ser' = [d \in Devs |-> "none"]
  /\ inv' = 1
  /\ pc' = "open"
  /\ UNCHANGED << cfg, connected, loop_count, agg_active, agg_apparent,
                  agg_pv, phases_present, data, q, last_qpiri, polls_left,
                  snap, issued, agg_emitted, sinceQ1, q1Gap, sent_age,
                  qpiri_gap, interrupted,
                  rounds, codec >>

\* inv.open() of the open loop; a failure is logged and the loop goes on
Open ==
  /\ pc = "open"
  /\ \E ok \in BOOLEAN :
       ser' = [ser EXCEPT ![inv] = IF ok THEN "open" ELSE "none"]
  /\ IF inv < N THEN inv' = inv + 1 /\ pc' = "open"
                ELSE inv' = inv /\ pc' = "counters"
  /\ UNCHANGED << cfg, connected, loop_count, agg_active, agg_apparent,
                  agg_pv, phases_present, data, q, last_qpiri, polls_left,
                  snap, issued, agg_emitted, sinceQ1, q1Gap, sent_age,
                  qpiri_gap, interrupted,
                  rounds, codec >>

\* "Periodic counters": last_qpiri = {}, loop_count = 0
InitCounters ==
  /\ pc = "counters"
  /\ last_qpiri' = [d \in Devs |-> NoEntry]
  /\ loop_count' = 0
  /\ sinceQ1' = [d \in Devs |-> NoEntry]
  /\ q1Gap' = [d \in Devs |-> 0]
  /\ pc' = "cycle"
  /\ UNCHANGED << cfg, connected, inv, ser, agg_active, agg_apparent, agg_pv,
                  phases_present, data, q, polls_left, snap, issued,
                  agg_emitted, sent_age, qpiri_gap, interrupted,
                  rounds, codec >>

\* variant: the interval is not doubled
q1_every_single(ri) == Max(Q1Floor, ri)

\* q1_every = max(30, cfg.read_interval * 2)
q1_every(ri) == Max(Q1Floor, ri * 2)

\* max(1, int(q1_every / max(1, cfg.read_interval)))
Q1DivisorOf(ri) == Max(1, q1_every(ri) \div Max(1, ri))
Q1Divisor == Q1DivisorOf(cfg.read_interval)

\* loop_count += 1 (kept by its residue modulo the Q1 divisor above LoopCap)
IncLoop(c) ==
  IF c < LoopCap THEN c + 1
  ELSE IF (c + 1) % Q1Divisor = 0 THEN Q1Divisor ELSE (c + 1) % Q1Divisor

\* variant: the accumulator is set up once, outside the inner while
CycleStart_carry ==
  /\ pc = "cycle"
  /\ loop_count' = IncLoop(loop_count)
  /\ snap' = [d \in Devs |-> EmptyRecord]
  /\ issued' = [d \in Devs |-> {}]
  /\ agg_emitted' = NoAgg
  /\ inv' = 1
  /\ pc' = "device"
  /\ UNCHANGED << cfg, connected, ser, data, q, last_qpiri, polls_left,
                  sinceQ1, q1Gap, sent_age, qpiri_gap, interrupted,
                  agg_active, agg_apparent, agg_pv, phases_present,
                  rounds, codec >>

\* top of the inner while: count the cycle, reset the accumulator
CycleStart ==
  /\ pc = "cycle"
  /\ loop_count' = IncLoop(loop_count)
  /\ agg_active' = 0 /\ agg_apparent' = 0 /\ agg_pv' = 0
  /\ phases_present' = {}
  /\ snap' = [d \in Devs |-> EmptyRecord]
  /\ issued' = [d \in Devs |-> {}]
  /\ agg_emitted' = NoAgg
  /\ inv' = 1
  /\ pc' = "device"
  /\ UNCHANGED << cfg, connected, ser, data, q, last_qpiri, polls_left,
                  sinceQ1, q1Gap, sent_age, qpiri_gap, interrupted,
                  rounds, codec >>

\* the for-loop moves to the next (ic, inv) or leaves the loop
NextDevice(i) == IF i < N THEN i + 1 ELSE i

\* variant: the for-loop is left after the device in hand
AfterDevice_break(i) == "agg_publish"

AfterDevice(i) == IF i < N THEN "device" ELSE "agg_publish"

\* data = {}; data = inv.read_snapshot() up to its query('QPIGS')
Device ==
  /\ pc = "device"
  /\ polls_left # 0
  /\ polls_left' = IF polls_left = Unlimited THEN Unlimited
                   ELSE polls_left - 1
  /\ data' = EmptyRecord
  /\ StartQuery("QPIGS")
  /\ rounds' = [rounds EXCEPT ![inv] = Min(@ + 1, 2)]
  /\ UNCHANGED << cfg, connected, inv, ser, loop_count, agg_active,
                  agg_apparent, agg_pv, phases_present, last_qpiri,
                  snap, agg_emitted, sinceQ1, q1Gap,
                  sent_age, qpiri_gap, interrupted, codec >>

\* read_snapshot after query('QPIGS'): no line gives {}, else parse and
\* go on to the optional query('QPIGS2')
RetQpigs ==
  /\ pc = "ret_QPIGS"
  /\ IF q.resp = NoResp
     THEN /\ data' = EmptyRecord
          /\ pc' = "have_data"
          /\ q' = NoQuery
          /\ UNCHANGED issued
     ELSE /\ data' = parse_qpigs(q.resp.parts)
          /\ StartQuery("QPIGS2")
  /\ UNCHANGED << cfg, connected, inv, ser, loop_count, agg_active,
                  agg_apparent, agg_pv, phases_present, last_qpiri,
                  polls_left, snap, agg_emitted, sinceQ1, q1Gap,
                  sent_age, qpiri_gap, interrupted,
                  rounds, codec >>

\* read_snapshot after query('QPIGS2'): PV2 fields are merged, data returned
RetQpigs2 ==
  /\ pc = "ret_QPIGS2"
  /\ data' = IF q.resp = NoResp THEN data ELSE merge_qpigs2(data, q.resp)
  /\ pc' = "have_data"
  /\ q' = NoQuery
  /\ UNCHANGED << cfg, connected, inv, ser, loop_count, agg_active,
                  agg_apparent, agg_pv, phases_present, last_qpiri,
                  polls_left, snap, issued, agg_emitted, sinceQ1,
                  q1Gap, sent_age, qpiri_gap, interrupted,
                  rounds, codec >>

\* variant: the extended queries are not guarded by `if data:`
Truthy_always(rec) == TRUE

\* truth value of a dict
Truthy(rec) == rec # EmptyRecord

\* `if data:` - an empty record ends this device's turn; otherwise the
\* snapshot is published (a publish error is logged) and QMOD is queried
HaveData ==
  /\ pc = "have_data"
  /\ IF ~Truthy(data)
     THEN /\ inv' = NextDevice(inv)
          /\ pc' = AfterDevice(inv)
          /\ sinceQ1' = [sinceQ1 EXCEPT ![inv] = NoEntry]
          /\ UNCHANGED << q, issued, snap >>
     ELSE /\ snap' = [snap EXCEPT ![inv] = data]
          /\ sinceQ1' = [sinceQ1 EXCEPT ![inv] =
                           IF @ = NoEntry THEN NoEntry ELSE @ + 1]
          /\ StartQuery("QMOD")
          /\ inv' = inv
  /\ UNCHANGED << cfg, connected, ser, loop_count, agg_active, agg_apparent,
                  agg_pv, phases_present, data, last_qpiri, polls_left,
                  agg_emitted, q1Gap, sent_age, qpiri_gap,
                  interrupted,
                  rounds, codec >>

\* variant: Q1 in every cycle
Q1Due_always == TRUE

\* (loop_count % max(1, int(q1_every / max(1, cfg.read_interval)))) == 0
Q1Due == loop_count % Q1Divisor = 0

\* after query_qmod (its publish is inside the try): Q1 on its cadence
RetQmod ==
  /\ pc = "ret_QMOD"
  /\ IF Q1Due
     THEN /\ StartQuery("Q1")
          /\ q1Gap' = [q1Gap EXCEPT ![inv] =
                         IF sinceQ1[inv] = NoEntry THEN @ ELSE sinceQ1[inv]]
          /\ sinceQ1' = [sinceQ1 EXCEPT ![inv] = 0]
     ELSE /\ pc' = "fwsn"
          /\ q' = NoQuery
          /\ UNCHANGED << issued, q1Gap, sinceQ1 >>
  /\ UNCHANGED << cfg, connected, inv, ser, loop_count, agg_active,
                  agg_apparent, agg_pv, phases_present, data, last_qpiri,
                  polls_left, snap, agg_emitted, sent_age, qpiri_gap,
                  interrupted,
                  rounds, codec >>

\* after query_q1 (its publish is inside the try)
RetQ1 ==
  /\ pc = "ret_Q1"
  /\ pc' = "fwsn"
  /\ q' = NoQuery
  /\ UNCHANGED << cfg, connected, inv, ser, loop_count, agg_active,
                  agg_apparent, agg_pv, phases_present, data, last_qpiri,
                  polls_left, snap, issued, agg_emitted, sinceQ1,
                  q1Gap, sent_age, qpiri_gap, interrupted,
                  rounds, codec >>

\* now - last_ts > 24*3600, with last_ts = last_qpiri.get(did, 0.0)
QpiriDue(age) == age = NoEntry \/ age > DAY

\* "FW/SN once" (Inverter has no query_fw_sn: the AttributeError is
\* swallowed), then now/last_ts: `did` is bound only when connected, so
\* without a connection last_qpiri.get(did, ...) raises into the loop's
\* except branch; with one, QPIRI is queried when it is due
FwSn ==
  /\ pc = "fwsn"
  /\ IF ~connected
     THEN /\ pc' = "loop_error"
          /\ UNCHANGED << q, issued, sent_age, qpiri_gap >>
     ELSE IF QpiriDue(last_qpiri[inv])
     THEN /\ StartQuery("QPIRI")
          /\ qpiri_gap' = [qpiri_gap EXCEPT ![inv] = sent_age[inv]]
          /\ sent_age' = [sent_age EXCEPT ![inv] = 0]
     ELSE /\ pc' = "aggregate"
          /\ UNCHANGED << q, issued, sent_age, qpiri_gap >>
  /\ UNCHANGED << cfg, connected, inv, ser, loop_count, agg_active,
                  agg_apparent, agg_pv, phases_present, data, last_qpiri,
                  polls_left, snap, agg_emitted, sinceQ1, q1Gap,
                  interrupted,
                  rounds, codec >>

\* after query_qpiri, whatever it returned: last_qpiri[did] = now
RetQpiri ==
  /\ pc = "ret_QPIRI"
  /\ last_qpiri' = [last_qpiri EXCEPT ![inv] = 0]
  /\ pc' = "aggregate"
  /\ q' = NoQuery
  /\ UNCHANGED << cfg, connected, inv, ser, loop_count, agg_active,
                  agg_apparent, agg_pv, phases_present, data, polls_left,
                  snap, issued, agg_emitted, sinceQ1, q1Gap, sent_age,
                  qpiri_gap, interrupted,
                  rounds, codec >>

\* variant: the second PV input is left out of the sum
PvOf_pv1only(rec) == GetInt(rec, "pv_input_power_w")

\* pv1 + pv2 of the "aggregate sums"
PvOf(rec) == GetInt(rec, "pv_input_power_w") + GetInt(rec, "pv2_input_power_w")

\* "aggregate sums" and the phase of the device, then the next device
Aggregate ==
  /\ pc = "aggregate"
  /\ agg_active' = agg_active + GetInt(data, "ac_output_active_power_w")
  /\ agg_apparent' = agg_apparent + GetInt(data, "ac_output_apparent_power_va")
  /\ agg_pv' = agg_pv + PvOf(data)
  /\ phases_present' = IF cfg.phases[inv] # NoPhase
                       THEN phases_present \cup {cfg.phases[inv]}
                       ELSE phases_present
  /\ inv' = NextDevice(inv)
  /\ pc' = AfterDevice(inv)
  /\ UNCHANGED << cfg, connected, ser, loop_count, data, q, last_qpiri,
                  polls_left, snap, issued, agg_emitted, sinceQ1,
                  q1Gap, sent_age, qpiri_gap, interrupted,
                  rounds, codec >>

\* sorted(phases_present) as a sequence
RECURSIVE sorted(_)
sorted(S) ==
  IF S = {} THEN << >>
  ELSE LET m == CHOOSE x \in S : \A y \in S : PhaseRank(x) <= PhaseRank(y)
       IN << m >> \o sorted(S \ {m})

\* variant: any phase present is enough
AggCondition_anyphase == cfg.group_3phase /\ phases_present # {} /\ connected

\* cfg.group_3phase and phases_present >= {'L1','L2','L3'} and connected
AggCondition == cfg.group_3phase /\ PhaseTags \subseteq phases_present
                /\ connected

\* agg_data of the aggregator
agg_data == [kind |-> "agg",
             total_active_power_w |-> agg_active,
             total_apparent_power_va |-> agg_apparent,
             total_pv_power_w |-> agg_pv,
             phases |-> sorted(phases_present)]

\* "publish aggregator if configured and phases present": this publish is
\* outside every inner try, so a raise reaches the loop's except branch
AggPublish ==
  /\ pc = "agg_publish"
  /\ IF AggCondition
     THEN /\ agg_emitted' = agg_data
          /\ \E out \in PublishOutcomes :
               pc' = IF out = "ok" THEN "sleep" ELSE "loop_error"
     ELSE /\ pc' = "sleep"
          /\ UNCHANGED agg_emitted
  /\ UNCHANGED << cfg, connected, inv, ser, loop_count, agg_active,
                  agg_apparent, agg_pv, phases_present, data, q, last_qpiri,
                  polls_left, snap, issued, sinceQ1, q1Gap, sent_age,
                  qpiri_gap, interrupted,
                  rounds, codec >>

\* the wall clock moves on by `e` seconds
Older(age, e) == IF age = NoEntry THEN NoEntry ELSE Sat(age + e)

\* time.sleep(cfg.read_interval); the environment may let more time pass
Sleep ==
  /\ pc = "sleep"
  /\ \E e \in {cfg.read_interval, DAY} :
       /\ last_qpiri' = [d \in Devs |-> Older(last_qpiri[d], e)]
       /\ sent_age' = [d \in Devs |-> Older(sent_age[d], e)]
  /\ rounds' = [d \in Devs |-> 0]
  /\ pc' = "cycle"
  /\ UNCHANGED << cfg, connected, inv, ser, loop_count, agg_active,
                  agg_apparent, agg_pv, phases_present, data, q, polls_left,
                  snap, issued, agg_emitted, sinceQ1, q1Gap, qpiri_gap,
                  interrupted, codec >>

\* variant: the except branch of the loop leaves the outer while
LoopError_break ==
  /\ pc = "loop_error"
  /\ ser' = close(ser, inv)
  /\ pc' = "returned"
  /\ UNCHANGED << cfg, connected, inv, loop_count, agg_active, agg_apparent,
                  agg_pv, phases_present, data, q, last_qpiri, polls_left,
                  snap, issued, agg_emitted, sinceQ1, q1Gap, sent_age,
                  qpiri_gap, interrupted,
                  rounds, codec >>

\* `except Exception` of the loop ("will reopen port"), then the finally
\* clause inv.close(), then the outer while starts over without a sleep
LoopError ==
  /\ pc = "loop_error"
  /\ ser' = close(ser, inv)
  /\ pc' = "build"
  /\ UNCHANGED << cfg, connected, inv, loop_count, agg_active, agg_apparent,
                  agg_pv, phases_present, data, q, last_qpiri, polls_left,
                  snap, issued, agg_emitted, sinceQ1, q1Gap, sent_age,
                  qpiri_gap, interrupted,
                  rounds, codec >>

\* positions inside the try block of main.py:56-132
TryPcs == {"counters", "cycle", "device", "query", "ret_QPIGS", "ret_QPIGS2",
           "have_data", "ret_QMOD", "ret_Q1", "fwsn", "ret_QPIRI",
           "aggregate", "agg_publish", "sleep"}

\* KeyboardInterrupt inside the try: `except KeyboardInterrupt`, the finally
\* clause inv.close(), break, mqtt.disconnect(), return 0
Interrupt ==
  /\ pc \in TryPcs
  /\ interrupted' = TRUE
  /\ ser' = close(ser, inv)
  /\ pc' = "returned"
  /\ UNCHANGED << cfg, connected, inv, loop_count, agg_active, agg_apparent,
                  agg_pv, phases_present, data, q, last_qpiri, polls_left,
                  snap, issued, agg_emitted, sinceQ1, q1Gap, sent_age,
                  qpiri_gap,
                  rounds, codec >>

\* KeyboardInterrupt while the sessions are built and opened: no handler
\* encloses main.py:43-54, the exception leaves main()
InterruptOpen ==
  /\ pc \in {"build", "open"}
  /\ interrupted' = TRUE
  /\ pc' = "raised"
  /\ UNCHANGED << cfg, connected, inv, ser, loop_count, agg_active,
                  agg_apparent, agg_pv, phases_present, data, q, last_qpiri,
                  polls_left, snap, issued, agg_emitted, sinceQ1,
                  q1Gap, sent_age, qpiri_gap,
                  rounds, codec >>

Next ==
  \/ Build \/ Open \/ InitCounters \/ CycleStart \/ Device \/ QueryAttempt
  \/ RetQpigs \/ RetQpigs2 \/ HaveData \/ RetQmod \/ RetQ1 \/ FwSn
  \/ RetQpiri \/ Aggregate \/ AggPublish \/ Sleep \/ LoopError
  \/ Interrupt \/ InterruptOpen

\* -------------------------------------------------------- specifications
\* two devices, one phase-tagged, with and without a bus connection
Configs == {Config(30, TRUE, << "L1", NoPhase >>)}

Init == InitWith(Configs, BOOLEAN, MaxPolls)
Spec == Init /\ [][Next]_vars

\* one device polled at several read intervals
CadenceConfigs == {Config(ri, FALSE, << NoPhase >>) : ri \in {7, 10, 30}}

InitCadence == InitWith(CadenceConfigs, BOOLEAN, CadencePolls)
SpecCadence == InitCadence /\ [][Next]_vars

\* a three-phase installation, configured in the order L3, L1, L2
PhaseConfigs == {Config(30, grp, << "L3", "L1", "L2" >>) : grp \in BOOLEAN}

InitPhase == InitWith(PhaseConfigs, BOOLEAN, PhasePolls)
SpecPhase == InitPhase /\ [][Next]_vars

\* a three-phase installation with one more device that has no phase tag
MixedConfigs == {Config(30, TRUE, << NoPhase, "L1", "L2", "L3" >>)}

InitMixed == InitWith(MixedConfigs, BOOLEAN, MixedPolls)
SpecMixed == InitMixed /\ [][Next]_vars

\* the program's own steps: a single thread that always takes its next
\* step (every query attempt and every sleep returns)
Program ==
  \/ Build \/ Open \/ InitCounters \/ CycleStart \/ Device \/ QueryAttempt
  \/ RetQpigs \/ RetQpigs2 \/ HaveData \/ RetQmod \/ RetQ1 \/ FwSn
  \/ RetQpiri \/ Aggregate \/ AggPublish \/ Sleep \/ LoopError

\* unbounded run of one device at a read interval of twelve hours
LiveConfigs == {Config(12 * 3600, FALSE, << "L1" >>)}

InitLive == InitWith(LiveConfigs, BOOLEAN, Unlimited)
LiveSpec == InitLive /\ [][Next]_vars /\ WF_vars(Program)

\* unbounded run of two devices, the second one without a phase tag
PairConfigs == {Config(2 * DAY, FALSE, << "L1", NoPhase >>)}

InitPair == InitWith(PairConfigs, BOOLEAN, Unlimited)
LivePair == InitPair /\ [][Next]_vars /\ WF_vars(Program)

\* ================================================================= codec
\* The decoders and the checksum, applied on their own to one argument.
\* Text is a sequence of one-character strings, a byte is a number 0..255.
Digits == {"0", "1", "2", "3", "4", "5", "6", "7", "8", "9"}
DigitSeq == << "0", "1", "2", "3", "4", "5", "6", "7", "8", "9" >>
DigitVal(c) == (CHOOSE i \in 1..10 : DigitSeq[i] = c) - 1

\* the characters re.sub(r"[^0-9+\-.]", "", tok) keeps
NumChars == Digits \cup {"+", "-", "."}
IsNumChar(c) == c \in NumChars
sanitize(tok) == SelectSeq(tok, IsNumChar)

\* values held by a record: int, float (m / 10^e), str, bool, None
IntV(n) == [t |-> "int", v |-> n]
FloatV(m, e) == [t |-> "float", m |-> m, e |-> e]
StrV(s) == [t |-> "str", s |-> s]
BoolV(b) == [t |-> "bool", b |-> b]
NoneV == [t |-> "none"]
\* a conversion that raises ValueError
Raised == [t |-> "raise"]

AllIn(s, S) == \A i \in 1..Len(s) : s[i] \in S
Unsigned(s) == IF s # << >> /\ Head(s) \in {"+", "-"} THEN Tail(s) ELSE s
SignOf(s) == IF s # << >> /\ Head(s) = "-" THEN 0 - 1 ELSE 1

\* position of the first c in s at or after i, 0 if there is none
RECURSIVE find_from(_, _, _)
find_from(s, c, i) ==
  IF i > Len(s) THEN 0
  ELSE IF s[i] = c THEN i
  ELSE find_from(s, c, i + 1)

\* s.find(c), counted from 1 (0 when Python gives -1)
find(s, c) == find_from(s, c, 1)

RECURSIVE NatOf(_)
NatOf(ds) ==
  IF ds = << >> THEN 0
  ELSE NatOf(SubSeq(ds, 1, Len(ds) - 1)) * 10 + DigitVal(ds[Len(ds)])

RECURSIVE rstrip0(_)
rstrip0(ds) ==
  IF ds # << >> /\ ds[Len(ds)] = "0" THEN rstrip0(SubSeq(ds, 1, Len(ds) - 1))
  ELSE ds

\* the strings int() and float() accept, among those made of the characters
\* of NumChars and letters other than e, i, n, a, f
IsInt(s) == Unsigned(s) # << >> /\ AllIn(Unsigned(s), Digits)
IsFloat(s) ==
  LET u == Unsigned(s)
  IN /\ AllIn(u, Digits \cup {"."})
     /\ Cardinality({i \in 1..Len(u) : u[i] = "."}) <= 1
     /\ \E i \in 1..Len(u) : u[i] \in Digits

IntPart(u) == IF find(u, ".") > 0 THEN SubSeq(u, 1, find(u, ".") - 1) ELSE u
FracPart(u) ==
  IF find(u, ".") > 0 THEN SubSeq(u, find(u, ".") + 1, Len(u)) ELSE << >>

\* int(s), float(s), int(float(s))
py_int(s) == IF IsInt(s) THEN IntV(SignOf(s) * NatOf(Unsigned(s))) ELSE Raised
py_float(s) ==
  IF IsFloat(s)
  THEN LET u == Unsigned(s)
           fr == rstrip0(FracPart(u))
       IN FloatV(SignOf(s) * NatOf(IntPart(u) \o fr), Len(fr))
  ELSE Raised
py_int_float(s) ==
  IF IsFloat(s) THEN IntV(SignOf(s) * NatOf(IntPart(Unsigned(s))))
  ELSE Raised

\* the fragments of s from position i on
RECURSIVE split_from(_, _)
split_from(s, i) ==
  IF i > Len(s) THEN << >>
  ELSE IF s[i] = " " THEN split_from(s, i + 1)
  ELSE LET sp == find_from(s, " ", i)
           e == IF sp > 0 THEN sp - 1 ELSE Len(s)
       IN << SubSeq(s, i, e) >> \o split_from(s, e + 1)

\* [p for p in text.strip().split(' ') if p]
split(s) == split_from(s, 1)

\* parse_qpigs: the text after a leading '(' and before the first ')',
\* tokenised, every token sanitised
qpigs_parts(line) ==
  LET l1 == IF line # << >> /\ Head(line) = "(" THEN Tail(line) ELSE line
      l2 == IF find(l1, ")") > 0 THEN SubSeq(l1, 1, find(l1, ")") - 1) ELSE l1
      raw_parts == split(l2)
  IN [i \in 1..Len(raw_parts) |-> sanitize(raw_parts[i])]

\* parse_qpigs up to the end of the sanitising loop: the list "parts"
tokenize(line) == IF line = << >> THEN << >> ELSE qpigs_parts(line)

\* query_q1 / query_qpiri / QPIGS2: payload and tokens, not sanitised
ext_tokens(line) ==
  LET payload ==
        IF line # << >> /\ Head(line) = "("
        THEN IF find(line, ")") > 0 THEN SubSeq(line, 2, find(line, ")") - 1)
             ELSE Tail(line)
        ELSE line
  IN split(payload)

\* data[key] = v
Put(rec, key, v) ==
  [k \in (DOMAIN rec) \cup {key} |-> IF k = key THEN v ELSE rec[k]]

\* the QPIGS fields converted with int(); the other numeric ones with float()
IntKeys ==
  {"ac_output_apparent_power_va", "ac_output_active_power_w",
   "ac_output_load_percent", "battery_charging_current_a",
   "battery_capacity_percent", "inverter_heatsink_temp_c",
   "battery_discharge_current_a", "rsv1", "rsv2", "pv_input_power_w",
   "bus_voltage_v"}

\* variant: `break` in the except branch of the field loop
AfterBad_break(i) == Len(field_keys) + 1

\* `continue` in the except branch of the field loop: on to the next index
AfterBad(i) == i + 1

\* for i, key in enumerate(field_keys): ... of parse_qpigs, from index i on
RECURSIVE qpigs_loop(_, _, _)
qpigs_loop(i, parts, rec) ==
  IF i > Len(field_keys) \/ i > Len(parts) THEN rec
  ELSE LET key == field_keys[i]
           val_s == parts[i]
           v == IF key \in IntKeys THEN py_int(val_s) ELSE py_float(val_s)
       IN IF key \in StatusKeys
          THEN qpigs_loop(i + 1, parts, Put(rec, key, StrV(val_s)))
          ELSE IF v = Raised THEN qpigs_loop(AfterBad(i), parts, rec)
          ELSE qpigs_loop(i + 1, parts, Put(rec, key, v))

status_keys ==
  << "status_sbu_priority_added", "status_configuration_changed",
     "status_scc_fw_updated", "status_load_on",
     "status_batt_steady_while_charging", "status_charging_on",
     "status_scc_charging_on", "status_ac_charging_on" >>
status2_keys == << "status_charging_to_float", "status_switched_on" >>

\* str(data.get(key, ''))
BitsOf(rec, key) == IF key \in DOMAIN rec THEN rec[key].s ELSE << >>

\* variant: only the length of the status field is tested
BitsOk_length(bits, n) == Len(bits) = n

\* len(bits) == n and bits.isdigit()
BitsOk(bits, n) == Len(bits) = n /\ AllIn(bits, Digits)

\* the booleans derived from a status field: keys[j] is bits[j-1] == '1'
derive(rec, bits, keys) ==
  [k \in (DOMAIN rec) \cup {keys[j] : j \in 1..Len(keys)} |->
     IF \E j \in 1..Len(keys) : keys[j] = k
     THEN BoolV(bits[CHOOSE j \in 1..Len(keys) : keys[j] = k] = "1")
     ELSE rec[k]]

\* Inverter.parse_qpigs on the text of a response line
parse_qpigs_text(line) ==
  IF line = << >> THEN EmptyRecord
  ELSE LET d0 == qpigs_loop(1, qpigs_parts(line), EmptyRecord)
           bits == BitsOf(d0, "device_status_bits")
           d1 == IF BitsOk(bits, 8) THEN derive(d0, bits, status_keys) ELSE d0
           bits2 == BitsOf(d1, "device_status2_bits")
       IN IF BitsOk(bits2, 3) THEN derive(d1, bits2, status2_keys) ELSE d1

qpiri_keys ==
  << "qpiri_ac_input_voltage_v", "qpiri_ac_input_current_a",
     "qpiri_ac_output_voltage_v", "qpiri_ac_output_frequency_hz",
     "qpiri_ac_output_current_a", "qpiri_ac_output_apparent_power_va",
     "qpiri_ac_output_active_power_w", "qpiri_battery_voltage_v",
     "qpiri_battery_recharge_voltage_v", "qpiri_battery_under_voltage_v",
     "qpiri_battery_bulk_charge_voltage_v",
     "qpiri_battery_float_charge_voltage_v" >>
\* the positions read with iv(), the others with f()
QpiriIntPos == {6, 7}

\* f(i) and iv(i) of query_qpiri: the value, or None when the conversion raises
f(tokens, i) ==
  IF py_float(tokens[i]) = Raised THEN NoneV ELSE py_float(tokens[i])
iv(tokens, i) ==
  IF py_int_float(tokens[i]) = Raised THEN NoneV ELSE py_int_float(tokens[i])

\* variant: more than a dozen tokens are asked for
QpiriGuard_strict(n) == n > 12

\* if len(tokens) >= 12
QpiriGuard(n) == n >= 12

\* Inverter.query_qpiri once query('QPIRI') has returned `line`
qpiri_record(line) ==
  IF line = << >> THEN EmptyRecord
  ELSE LET tokens == ext_tokens(line)
           pos(k) == CHOOSE i \in 1..Len(qpiri_keys) : qpiri_keys[i] = k
       IN IF QpiriGuard(Len(tokens))
          THEN [k \in {qpiri_keys[i] : i \in 1..Len(qpiri_keys)} |->
                  IF pos(k) \in QpiriIntPos THEN iv(tokens, pos(k))
                  ELSE f(tokens, pos(k))]
          ELSE EmptyRecord

\* as_int(idx) of query_q1; idx counts from 0
as_int(tokens, idx) ==
  IF idx < Len(tokens)
  THEN LET t == sanitize(tokens[idx + 1])
       IN IF py_int(t) # Raised THEN py_int(t)
          ELSE IF py_int_float(t) # Raised THEN py_int_float(t)
          ELSE NoneV
  ELSE NoneV

\* as_float(idx) of query_q1
as_float(tokens, idx) ==
  IF idx < Len(tokens)
  THEN LET t == sanitize(tokens[idx + 1])
       IN IF py_float(t) # Raised THEN py_float(t) ELSE NoneV
  ELSE NoneV

\* variant: the value as as_int returned it
OrZero_asis(v) == v

\* as_int(idx) or 0
OrZero(v) == IF v = NoneV \/ v = IntV(0) THEN IntV(0) ELSE v

IsDigit(c) == c \in Digits

\* charge_map.get(status_code, status_code)
charge_map(code) ==
  IF code = << "1", "0" >>
  THEN << "n", "o", "c", "h", "a", "r", "g", "i", "n", "g" >>
  ELSE IF code = << "1", "1" >> THEN << "b", "u", "l", "k" >>
  ELSE IF code = << "1", "2" >> THEN << "a", "b", "s", "o", "r", "b" >>
  ELSE IF code = << "1", "3" >> THEN << "f", "l", "o", "a", "t" >>
  ELSE code

\* Inverter.query_q1 once query('Q1') has returned `line`
q1_record(line) ==
  IF line = << >> THEN EmptyRecord
  ELSE LET tokens == ext_tokens(line)
           o1 == Put(EmptyRecord, "scc_pwm_temp_c", OrZero(as_int(tokens, 5)))
           o2 == Put(o1, "inverter_temp_c", OrZero(as_int(tokens, 6)))
           o3 == Put(o2, "battery_temp_c", OrZero(as_int(tokens, 7)))
           o4 == Put(o3, "transformer_temp_c", OrZero(as_int(tokens, 8)))
           o5 == Put(o4, "scc_charge_power_w", OrZero(as_int(tokens, 13)))
           sf == as_float(tokens, 15)
           o6 == IF sf # NoneV THEN Put(o5, "sync_frequency_hz", sf) ELSE o5
       IN IF 16 < Len(tokens)
          THEN Put(o6, "charge_stage",
                   StrV(charge_map(SelectSeq(tokens[17], IsDigit))))
          ELSE o6

pv2_keys ==
  << "pv2_input_current_a", "pv2_input_voltage_v", "pv2_input_power_w" >>

\* variant: the key is written whatever the conversion did
TryPut_always(rec, key, v) == Put(rec, key, v)

\* try: data[key] = <conversion>  except Exception: pass
TryPut(rec, key, v) == IF v = Raised THEN rec ELSE Put(rec, key, v)

\* the QPIGS2 part of read_snapshot once query('QPIGS2') has returned line2
pv2_merge(rec, line2) ==
  IF line2 # << >> /\ Head(line2) = "("
  THEN LET toks == ext_tokens(line2)
           parts == [i \in 1..Len(toks) |-> sanitize(toks[i])]
       IN IF Len(parts) >= 3
          THEN TryPut(TryPut(TryPut(rec, pv2_keys[1], py_float(parts[1])),
                             pv2_keys[2], py_float(parts[2])),
                      pv2_keys[3], py_int_float(parts[3]))
          ELSE rec
  ELSE rec

\* what a query hands back: nothing, a line, or (QPIGS2 only) an exception
NoText == [kind |-> "none"]
Text(t) == [kind |-> "text", text |-> t]
Thrown == [kind |-> "raise"]

\* Inverter.read_snapshot as a function of the outcomes of its two queries:
\* the record returned and the commands sent
read_snapshot(r1, r2) ==
  IF r1.kind = "none" \/ r1.text = << >>
  THEN [data |-> EmptyRecord, sent |-> << "QPIGS" >>]
  ELSE [data |-> IF r2.kind = "text"
                 THEN pv2_merge(parse_qpigs_text(r1.text), r2.text)
                 ELSE parse_qpigs_text(r1.text),
        sent |-> << "QPIGS", "QPIGS2" >>]

\* ----------------------------------------------------------- crc_pi
crc_ta ==
  << 0, 4129, 8258, 12387, 16516, 20645, 24774, 28903,
     33032, 37161, 41290, 45419, 49548, 53677, 57806, 61935 >>

\* a ^ b on naturals
RECURSIVE Xor(_, _)
Xor(a, b) ==
  IF a = 0 THEN b
  ELSE IF b = 0 THEN a
  ELSE 2 * Xor(a \div 2, b \div 2) + (((a % 2) + (b % 2)) % 2)

\* one half of the loop body: da, the shift, the table look-up
crc_nibble(crc, nib) ==
  LET da == ((crc \div 256) % 256) \div 16
      shifted == (crc * 16) % 65536
  IN Xor(shifted, crc_ta[Xor(da, nib) + 1])

\* the 16-bit value after the loop over data_bytes
RECURSIVE crc16(_)
crc16(bytes) ==
  IF bytes = << >> THEN 0
  ELSE LET c == bytes[Len(bytes)]
           crc == crc16(SubSeq(bytes, 1, Len(bytes) - 1))
       IN crc_nibble(crc_nibble(crc, c \div 16), c % 16)

\* 0x28, 0x0D, 0x0A, 0x00
Reserved == {40, 13, 10, 0}

\* variant: the checksum bytes are sent as computed
Bump_never(b) == b

\* "Avoid control chars"
Bump(b) == IF b \in Reserved THEN b + 1 ELSE b

\* crc_pi: (crc_high, crc_low)
crc_pi(bytes) ==
  LET crc == crc16(bytes)
  IN << Bump((crc \div 256) % 256), Bump(crc % 256) >>

\* variant: the terminator ahead of the checksum
Trailer_crfirst(ch, cl) == << 13, ch, cl >>

\* bytes([ch, cl, 13])
Trailer(ch, cl) == << ch, cl, 13 >>

\* ------------------------------------------------------- codec inputs
\* characters of a probe token: a digit, the dot, the sign, a letter
TokAlphabet == {"1", ".", "-", "V"}
StatusTokens ==
  { << "1", "0", "1", "0", "0", "0", "1", "1" >>,
    << "0", "1", "0", "1", "1", "1", "0", "0" >>,
    << "1", "0", "1", "0", "0", "0", "1" >>,
    << "1", "0", "1", "0", ".", "0", "1", "1" >>,
    << "1", "0", "1", "0", "0", "0", "1", "1", "V" >>,
    << "1", "0", "1" >> }
\* numbers with a zero or a plus sign in them
ZeroTokens ==
  { << "0" >>, << "0", "1" >>, << "1", ".", "0" >>, << "-", "0" >>,
    << "+", "1" >>, << "1", "0", ".", "5", "0" >>, << "2", "3", "0", "V" >> }
\* charge codes, three known and one unknown ("11" is among the probes)
ChargeTokens ==
  { << "1", "0" >>, << "1", "2" >>, << "1", "3" >>, << "1", "4" >> }
ProbeTokens ==
  UNION {[1..k -> TokAlphabet] : k \in 1..MaxTokLen}
    \cup StatusTokens \cup ZeroTokens \cup ChargeTokens

\* n tokens, all "1" but the one at position p
TokensWith(n, p, t) == [i \in 1..n |-> IF i = p THEN t ELSE << "1" >>]

RECURSIVE join(_)
join(toks) ==
  IF toks = << >> THEN << >>
  ELSE IF Len(toks) = 1 THEN toks[1]
  ELSE toks[1] \o << " " >> \o join(Tail(toks))

\* "(...)" as the device sends it, without the closing or any parenthesis
Styles == {"paren", "open", "bare"}
Wrap(style, body) ==
  IF style = "paren" THEN << "(" >> \o body \o << ")" >>
  ELSE IF style = "open" THEN << "(" >> \o body
  ELSE body

\* every probe token at every position of a "(...)" response of every
\* length, and the three styles for responses of every length
LineArgs ==
  {[kind |-> "line", text |-> Wrap("paren", join(TokensWith(n, p, t)))] :
     n \in 0..MaxTokens, p \in 1..MaxTokens, t \in ProbeTokens}
  \cup
  {[kind |-> "line", text |-> Wrap(st, join(TokensWith(n, p, << "-" >>)))] :
     n \in 0..MaxTokens, p \in 0..1, st \in Styles}

\* bytes(cmd, 'utf-8') of the command names
cmd_text ==
  [QPIGS |-> << "Q", "P", "I", "G", "S" >>,
   QPIGS2 |-> << "Q", "P", "I", "G", "S", "2" >>,
   QMOD |-> << "Q", "M", "O", "D" >>,
   Q1 |-> << "Q", "1" >>,
   QPIRI |-> << "Q", "P", "I", "R", "I" >>]
ord(c) ==
  CASE c = "1" -> 49 [] c = "2" -> 50 [] c = "D" -> 68 [] c = "G" -> 71
    [] c = "I" -> 73 [] c = "M" -> 77 [] c = "O" -> 79 [] c = "P" -> 80
    [] c = "Q" -> 81 [] c = "R" -> 82 [] c = "S" -> 83
bytes_of(text) == [i \in 1..Len(text) |-> ord(text[i])]

\* the bytes of Q, P, I, G, R, and 0x00 and 0xFF
SampleBytes == {81, 80, 73, 71, 82, 0, 255}
ByteArgs ==
  {[kind |-> "bytes", bytes |-> b] :
     b \in UNION {[1..k -> SampleBytes] : k \in 0..MaxBody}
            \cup {bytes_of(cmd_text[c]) : c \in Commands}}

\* "(12.5 -3 abc1x)"
MixedLine ==
  << "(", "1", "2", ".", "5", " ", "-", "3", " ",
     "a", "b", "c", "1", "x", ")" >>

\* responses of n fragments without a digit, a sign or a dot
GarbageArgs ==
  {[kind |-> "line",
    text |-> Wrap("paren", join([i \in 1..n |-> << "V" >>]))] :
     n \in 1..MaxTokens}

\* QPIGS answers of 0, 3 and 21 tokens, and none; every probe token at
\* every position of a QPIGS2 answer of up to 4 tokens, in the three styles
SnapArgs ==
  {[kind |-> "snapshot", line |-> r1, line2 |-> r2] :
     r1 \in {NoText}
             \cup {Text(Wrap("paren", join(TokensWith(n, 0, << "1" >>)))) :
                     n \in {0, 3, 21}},
     r2 \in {NoText, Thrown}
             \cup {Text(Wrap(st, join(TokensWith(n, p, t)))) :
                     n \in 0..4, p \in 0..3, t \in ProbeTokens, st \in Styles}}

\* longest command text besides the command names
MaxCmd == 3
CmdAlphabet == {"Q", "P", "I", "G", "R"}
CmdArgs ==
  {[kind |-> "cmd", text |-> t] :
     t \in UNION {[1..k -> CmdAlphabet] : k \in 0..MaxCmd}
            \cup {cmd_text[c] : c \in Commands}}

\* build_command: body + bytes([ch, cl, 13])
build_command(cmd) ==
  LET body == bytes_of(cmd)
      crc == crc_pi(body)
  IN body \o Trailer(crc[1], crc[2])

\* ------------------------------------------------------ codec actions
ParseQpigs ==
  /\ fn = "none" /\ arg.kind = "line"
  /\ fn' = "parse_qpigs"
  /\ result' = parse_qpigs_text(arg.text)
  /\ UNCHANGED << mainvars, arg >>

QueryQpiri ==
  /\ fn = "none" /\ arg.kind = "line"
  /\ fn' = "query_qpiri"
  /\ result' = qpiri_record(arg.text)
  /\ UNCHANGED << mainvars, arg >>

CrcPi ==
  /\ fn = "none" /\ arg.kind = "bytes"
  /\ fn' = "crc_pi"
  /\ result' = crc_pi(arg.bytes)
  /\ UNCHANGED << mainvars, arg >>

Tokenize ==
  /\ fn = "none" /\ arg.kind = "line"
  /\ fn' = "tokenize"
  /\ result' = tokenize(arg.text)
  /\ UNCHANGED << mainvars, arg >>

QueryQ1 ==
  /\ fn = "none" /\ arg.kind = "line"
  /\ fn' = "query_q1"
  /\ result' = q1_record(arg.text)
  /\ UNCHANGED << mainvars, arg >>

ReadSnapshot ==
  /\ fn = "none" /\ arg.kind = "snapshot"
  /\ fn' = "read_snapshot"
  /\ result' = read_snapshot(arg.line, arg.line2)
  /\ UNCHANGED << mainvars, arg >>

BuildCommand ==
  /\ fn = "none" /\ arg.kind = "cmd"
  /\ fn' = "build_command"
  /\ result' = build_command(arg.text)
  /\ UNCHANGED << mainvars, arg >>

CodecNext ==
  \/ ParseQpigs \/ QueryQpiri \/ CrcPi \/ BuildCommand \/ Tokenize
  \/ ReadSnapshot \/ QueryQ1

InitCodec ==
  /\ InitMain(Configs, {FALSE}, 0)
  /\ arg \in LineArgs \cup ByteArgs \cup CmdArgs
            \cup {[kind |-> "line", text |-> MixedLine]} \cup GarbageArgs
            \cup SnapArgs
  /\ fn = "none"
  /\ result = EmptyRecord

SpecCodec == InitCodec /\ [][CodecNext]_vars

\* ================================================================ claims
Last(seq) == seq[Len(seq)]
LineIdx(log) == {i \in 1..Len(log) : log[i].kind = "line"}
CyclePcs == {"device", "query", "ret_QPIGS", "ret_QPIGS2", "have_data",
             "ret_QMOD", "ret_Q1", "fwsn", "ret_QPIRI", "aggregate",
             "agg_publish", "sleep"}
Succeeded == {d \in Devs : snap[d] # EmptyRecord}
PhasesSeen == {cfg.phases[d] : d \in Succeeded} \ {NoPhase}

\* C1: Inverter.query makes at most retries+1 attempts, calls _write once
\* per attempt (one frame on the transport per attempt of a session that
\* holds a handle), stops at the first attempt whose read is non-empty and
\* returns that line, and returns nothing exactly when all retries+1
\* attempts raised or read empty.
C1_QueryRetry ==
  /\ q.attempt = Len(q.log)
  /\ q.attempt <= q.retries + 1
  /\ q.sends = q.attempt
  /\ q.wire = Cardinality({i \in 1..Len(q.log) : q.log[i].kind # "assert"})
  /\ \A i \in LineIdx(q.log) : i = Len(q.log)
  /\ q.done =>
       /\ (q.resp = NoResp) <=> (LineIdx(q.log) = {} /\ q.attempt = q.retries + 1)
       /\ LineIdx(q.log) # {} => q.resp = Last(q.log)
  /\ (q.cmd # "none" /\ ~q.done /\ pc = "query") => q.attempt <= q.retries

\* two failed attempts, then a line on the third with retries = 2
C1_Witness ==
  /\ q.done /\ q.retries = 2 /\ q.attempt = 3
  /\ q.log[1].kind = "empty" /\ q.log[2].kind = "raise"
  /\ q.resp = LineFull

\* device d's session has just suffered a fatal transport error in the
\* snapshot step: _write/_readline raised, or it has no handle at all
FatalError(d) ==
  /\ pc \in {"query", "ret_QPIGS", "ret_QPIGS2"}
  /\ inv = d
  /\ q.cmd \in {"QPIGS", "QPIGS2"}
  /\ q.log # << >>
  /\ Last(q.log).kind \in {"raise", "assert"}

\* a fresh session of device d has been built and open() is called on it
Reopened(d) == pc = "open" /\ inv = d

Exited == pc \in {"returned", "raised"}

\* C2: a fatal transport error on a device during the snapshot step is
\* always eventually followed by a reopen of that device (unless the
\* process is interrupted first).
C2_FatalLeadsToReopen == FatalError(1) ~> (Reopened(1) \/ Exited)

\* C3: a device whose snapshot is empty (failed open, raising transport or
\* empty reads) does not end the cycle: the scheduler moves on to
\* read_snapshot of the next device in configuration order (to the end of
\* the cycle after the last one), and within a cycle exactly the devices
\* before the one in hand have been polled.
C3_PolledInOrder ==
  pc \in CyclePcs =>
    \A d \in Devs : ("QPIGS" \in issued[d]) <=>
                      (d < inv \/ (d = inv /\ pc # "device"))

C3_FailMovesOn ==
  (pc = "have_data" /\ data = EmptyRecord /\ ~interrupted') =>
     /\ pc' = (IF inv < N THEN "device" ELSE "agg_publish")
     /\ inv' = (IF inv < N THEN inv + 1 ELSE inv)

C3_NoAbort == [][C3_FailMovesOn /\ C3_PolledInOrder']_vars

\* the first device could not be opened, the second one is being polled
C3_Witness ==
  /\ pc = "query" /\ inv = 2 /\ q.cmd = "QPIGS" /\ q.attempt = 1
  /\ ser[1] = "none" /\ snap[1] = EmptyRecord /\ "QPIGS" \in issued[1]

\* C4: whatever the transports do, main() is left only by a
\* KeyboardInterrupt.
C4_OnlyInterruptExits == pc \in {"returned", "raised"} => interrupted

\* no device could be opened, every query failed, and the loop goes on
C4_Witness ==
  /\ pc = "cycle" /\ loop_count >= 2
  /\ \A d \in Devs : ser[d] = "none"

\* C5: when main() returns after an interruption, no session opened in
\* the current outer iteration is still open.
C5_AllClosedOnReturn ==
  pc = "returned" => \A d \in Devs : ser[d] # "open"

\* C6: two QPIRI queries to the same device are more than 24 hours apart,
\* over the whole process lifetime.
C6_QpiriOncePerDay ==
  \A d \in Devs : qpiri_gap[d] = NoEntry \/ qpiri_gap[d] > DAY

\* C7 as claimed: consecutive Q1 queries of a device that returns a
\* snapshot every cycle are k cycles apart with
\* k * read_interval = max(30, 2 * read_interval).
C7_Q1ExactSeconds ==
  \A d \in Devs :
    q1Gap[d] > 0 =>
      q1Gap[d] * cfg.read_interval = Max(30, 2 * cfg.read_interval)

\* C7 amended: they are k cycles apart where k is the whole part of
\* max(30, 2*read_interval) / read_interval, so k * read_interval is at
\* most max(30, 2*read_interval) and less than one read_interval short of it.
C7_Q1FloorCycles ==
  /\ \A d \in Devs :
       q1Gap[d] > 0 =>
         /\ q1Gap[d] * cfg.read_interval <= Max(30, 2 * cfg.read_interval)
         /\ (q1Gap[d] + 1) * cfg.read_interval > Max(30, 2 * cfg.read_interval)
  /\ pc = "counters" =>
       \A ri \in 1..MaxInterval :
         /\ Q1DivisorOf(ri) * ri <= Max(30, 2 * ri)
         /\ (Q1DivisorOf(ri) + 1) * ri > Max(30, 2 * ri)

\* read_interval 7: Q1 every 4 cycles, 28 seconds
C7_Witness == cfg.read_interval = 7 /\ q1Gap[1] = 4

\* C8: QMOD is queried on a device exactly when its snapshot of the cycle
\* is non-empty; Q1 and QPIRI only then; all three after the device's
\* QPIGS and QPIGS2 of the cycle and before any query of a later device.
C8_ExtendedQueries ==
  pc \in CyclePcs =>
    \A d \in Devs :
      /\ ("QMOD" \in issued[d]) <=> (snap[d] # EmptyRecord)
      /\ (issued[d] \cap {"Q1", "QPIRI"} # {}) => "QMOD" \in issued[d]
      /\ "QMOD" \in issued[d] => {"QPIGS", "QPIGS2"} \subseteq issued[d]
      /\ (pc = "query" /\ inv = d /\ q.cmd \in {"QMOD", "Q1", "QPIRI"}) =>
            \A e \in Devs : e > d => issued[e] = {}

\* QMOD, Q1 and QPIRI went to device 1, device 2 failed its snapshot
C8_Witness ==
  /\ pc = "agg_publish"
  /\ issued[1] = Commands
  /\ issued[2] = {"QPIGS"} /\ snap[2] = EmptyRecord

\* C9: an aggregate record is emitted in a cycle exactly when grouping is
\* configured and the devices whose snapshot succeeded in the cycle cover
\* L1, L2 and L3; its phase list is the sorted set of the phases seen.
C9_AggregateIff ==
  /\ agg_emitted # NoAgg =>
       /\ cfg.group_3phase /\ PhaseTags \subseteq PhasesSeen
       /\ {agg_emitted.phases[i] : i \in 1..Len(agg_emitted.phases)}
            = PhasesSeen
       /\ \A i \in 1..(Len(agg_emitted.phases) - 1) :
            PhaseRank(agg_emitted.phases[i])
              < PhaseRank(agg_emitted.phases[i + 1])
  /\ (pc \in {"sleep", "loop_error"}
        /\ cfg.group_3phase /\ PhaseTags \subseteq PhasesSeen)
       => agg_emitted # NoAgg

\* all three phases reported and the aggregate was emitted
C9_Witness ==
  /\ pc = "sleep" /\ agg_emitted # NoAgg
  /\ agg_emitted.phases = << "L1", "L2", "L3" >>

RECURSIVE SumOver(_, _)
SumOver(S, key) ==
  IF S = {} THEN 0
  ELSE LET d == CHOOSE x \in S : TRUE
       IN GetInt(snap[d], key) + SumOver(S \ {d}, key)

\* C10: the emitted totals are the sums over the devices whose snapshot
\* succeeded in the cycle of active power, of apparent power and of
\* pv_input_power_w + pv2_input_power_w, an absent field counting as zero.
C10_AggregateTotals ==
  agg_emitted # NoAgg =>
    /\ agg_emitted.total_active_power_w
         = SumOver(Succeeded, "ac_output_active_power_w")
    /\ agg_emitted.total_apparent_power_va
         = SumOver(Succeeded, "ac_output_apparent_power_va")
    /\ agg_emitted.total_pv_power_w
         = SumOver(Succeeded, "pv_input_power_w")
           + SumOver(Succeeded, "pv2_input_power_w")

\* three devices reporting 100 W each (one of them with a second PV input)
C10_Witness ==
  /\ agg_emitted # NoAgg
  /\ agg_emitted.total_active_power_w = 300
  /\ agg_emitted.total_pv_power_w = 160

Phased == {d \in Devs : cfg.phases[d] # NoPhase}

\* C11: the emitted totals sum power over the phase-tagged devices that
\* reported in the cycle only: an untagged device that returned a snapshot
\* adds nothing to the active, apparent or PV total.
C11_OnlyPhasedSummed ==
  agg_emitted # NoAgg =>
    /\ agg_emitted.total_active_power_w
         = SumOver(Succeeded \cap Phased, "ac_output_active_power_w")
    /\ agg_emitted.total_apparent_power_va
         = SumOver(Succeeded \cap Phased, "ac_output_apparent_power_va")
    /\ agg_emitted.total_pv_power_w
         = SumOver(Succeeded \cap Phased, "pv_input_power_w")
           + SumOver(Succeeded \cap Phased, "pv2_input_power_w")

\* devices whose snapshot of this cycle has gone through the "aggregate sums"
Added == {d \in Succeeded : d < inv \/ pc \in {"agg_publish", "sleep"}}

\* C12: the accumulator holds nothing of earlier cycles: inside a cycle the
\* three sums are the sums over the devices that reported so far in this
\* cycle and the phase set is the set of their tags (all zero and empty
\* before the first device is polled), so a device that reported in an
\* earlier cycle and is silent now adds neither power nor its phase.
C12_AccumulatorPerCycle ==
  pc \in CyclePcs =>
    /\ agg_active = SumOver(Added, "ac_output_active_power_w")
    /\ agg_apparent = SumOver(Added, "ac_output_apparent_power_va")
    /\ agg_pv = SumOver(Added, "pv_input_power_w")
                  + SumOver(Added, "pv2_input_power_w")
    /\ phases_present = {cfg.phases[d] : d \in Added} \ {NoPhase}

\* second cycle: device 1 (L1) reported in the first cycle (its QPIRI stamp
\* is set) and is silent now; only device 2's 100 W are in the accumulator
C12_Witness ==
  /\ pc = "agg_publish" /\ loop_count = 2
  /\ last_qpiri[1] # NoEntry /\ snap[1] = EmptyRecord
  /\ snap[2] # EmptyRecord
  /\ agg_active = 100 /\ phases_present = {}

\* the step after the device loop: the aggregate is handed to the publisher
\* if it is due, and the cycle goes on to its sleep with every session kept
C13_AggPublishGoesOn ==
  (pc = "agg_publish" /\ ~interrupted') => (pc' = "sleep" /\ ser' = ser)

\* C13: a delivery failure of the publisher never reaches the scheduler's
\* control flow: whatever the publisher does with the record handed to it
\* at the end of the device loop, the cycle goes on to its end-of-cycle
\* sleep (unless interrupted) and no session is closed.
C13_PublishNeverPropagates == [][C13_AggPublishGoesOn]_vars

\* C14: between two consecutive QPIGS snapshot rounds of a device the
\* scheduler has slept at least once, also when the sessions were
\* recreated after a loop error in between: no device is polled twice
\* without an end-of-cycle sleep.
C14_SleepBetweenRounds == \A d \in Devs : rounds[d] <= 1

\* device d's QPIGS query of the snapshot step has come back without a line
Silent(d) == pc = "ret_QPIGS" /\ inv = d /\ q.resp = NoResp

\* read_snapshot is entered on device d: its QPIGS query starts
Polled(d) == pc = "query" /\ inv = d /\ q.cmd = "QPIGS" /\ q.attempt = 0

\* C15: a device that does not answer goes on being retried: after every
\* snapshot round in which it stayed silent, a QPIGS query is attempted on
\* it again (unless the process is interrupted first).
C15_RetriedForever ==
  /\ Silent(1) ~> (Polled(1) \/ Exited)
  /\ Silent(2) ~> (Polled(2) \/ Exited)

\* C16: a record returned by the QPIGS or the QPIRI decoder holds no
\* placeholder: a key is present only with a decoded value, never with
\* None for a token that was absent or did not parse.
C16_NoPlaceholder ==
  fn \in {"parse_qpigs", "query_qpiri"} =>
    \A k \in DOMAIN result : result[k] # NoneV

\* the token of position i parses under the numeric kind of its field
ParsesAt(i, s) == IF field_keys[i] \in IntKeys THEN IsInt(s) ELSE IsFloat(s)
ValueAt(i, s) == IF field_keys[i] \in IntKeys THEN py_int(s) ELSE py_float(s)
FieldKeySet == {field_keys[i] : i \in 1..Len(field_keys)}
DerivedKeySet == {status_keys[j] : j \in 1..Len(status_keys)}
                 \cup {status2_keys[j] : j \in 1..Len(status2_keys)}

\* C17: the QPIGS decoder returns a record for every response; the key of
\* position i is present exactly when the response has a token at i that
\* parses under the numeric kind of the position (the two status fields
\* whenever the token exists), with the value of that very token: a token
\* that does not parse drops its own field only, positions never shift.
C17_QpigsSkipsBadTokens ==
  (fn = "parse_qpigs" /\ arg.text # << >>) =>
    LET parts == qpigs_parts(arg.text)
    IN /\ DOMAIN result \subseteq FieldKeySet \cup DerivedKeySet
       /\ \A i \in 1..Len(field_keys) :
            /\ (field_keys[i] \in DOMAIN result) <=>
                  /\ i <= Len(parts)
                  /\ field_keys[i] \in StatusKeys \/ ParsesAt(i, parts[i])
            /\ (field_keys[i] \in DOMAIN result \ StatusKeys) =>
                  result[field_keys[i]] = ValueAt(i, parts[i])

\* 21 tokens, the one of the active power is "1." (no int): that field
\* alone is missing, the fields after it are decoded under their own keys
C17_Witness ==
  /\ fn = "parse_qpigs"
  /\ Len(qpigs_parts(arg.text)) = 21
  /\ qpigs_parts(arg.text)[6] = << "1", "." >>
  /\ arg.text[Len(arg.text)] = ")"
  /\ "ac_output_active_power_w" \notin DOMAIN result
  /\ result["ac_output_load_percent"] = IntV(1)
  /\ result["device_status2_bits"] = StrV(<< "1" >>)

\* C18: a QPIRI response with fewer than 12 tokens gives an empty record;
\* with 12 or more it gives exactly the 12 mapped keys, key i read from
\* token i (float() for all but the apparent and active power, which are
\* read as int(float())).
C18_QpiriGuard ==
  (fn = "query_qpiri" /\ arg.text # << >>) =>
    LET tokens == ext_tokens(arg.text)
    IN IF Len(tokens) < 12 THEN result = EmptyRecord
       ELSE /\ DOMAIN result = {qpiri_keys[i] : i \in 1..12}
            /\ Cardinality(DOMAIN result) = 12
            /\ \A i \in 1..12 :
                 IsFloat(tokens[i]) =>
                   result[qpiri_keys[i]] =
                     (IF i \in {6, 7} THEN py_int_float(tokens[i])
                      ELSE py_float(tokens[i]))

\* exactly 12 tokens, the fifth one "-1": all 12 keys are there
C18_Witness ==
  /\ fn = "query_qpiri"
  /\ Len(ext_tokens(arg.text)) = 12
  /\ ext_tokens(arg.text)[5] = << "-", "1" >>
  /\ Cardinality(DOMAIN result) = 12
  /\ result["qpiri_ac_output_current_a"] = FloatV(0 - 1, 0)
  /\ result["qpiri_ac_output_apparent_power_va"] = IntV(1)

\* C19: when the token of position 16 is exactly 8 digits, the eight
\* status_* booleans are derived, the j-th one true iff the j-th character
\* is '1'; for any other length or a character that is no digit none is
\* derived; the raw token is kept under device_status_bits either way.
C19_StatusBits ==
  (fn = "parse_qpigs" /\ arg.text # << >>) =>
    LET parts == qpigs_parts(arg.text)
        bits == IF Len(parts) >= 17 THEN parts[17] ELSE << >>
    IN /\ Len(parts) >= 17 => result["device_status_bits"] = StrV(bits)
       /\ IF Len(bits) = 8 /\ \A j \in 1..8 : bits[j] \in Digits
          THEN \A j \in 1..8 : result[status_keys[j]] = BoolV(bits[j] = "1")
          ELSE \A j \in 1..8 : status_keys[j] \notin DOMAIN result

\* "10100011" gives true, false, true, false, false, false, true, true
C19_Witness ==
  /\ fn = "parse_qpigs"
  /\ "device_status_bits" \in DOMAIN result
  /\ "status_load_on" \in DOMAIN result
  /\ result["device_status_bits"]
       = StrV(<< "1", "0", "1", "0", "0", "0", "1", "1" >>)
  /\ result["status_sbu_priority_added"] = BoolV(TRUE)
  /\ result["status_configuration_changed"] = BoolV(FALSE)
  /\ result["status_scc_fw_updated"] = BoolV(TRUE)
  /\ result["status_load_on"] = BoolV(FALSE)
  /\ result["status_batt_steady_while_charging"] = BoolV(FALSE)
  /\ result["status_charging_on"] = BoolV(FALSE)
  /\ result["status_scc_charging_on"] = BoolV(TRUE)
  /\ result["status_ac_charging_on"] = BoolV(TRUE)

\* C20: each byte crc_pi returns is the corresponding byte of the 16-bit
\* nibble-table CRC or that byte plus one, lies in 0..255 and is none of
\* 0x28, 0x0D, 0x0A, 0x00 (QPIGS gives B7 A9, QMOD gives 49 C1).
C20_CrcBytes ==
  fn = "crc_pi" =>
    LET crc == crc16(arg.bytes)
        high == (crc \div 256) % 256
        low == crc % 256
    IN /\ result[1] \in {high, high + 1} /\ result[2] \in {low, low + 1}
       /\ result[1] \in 0..255 /\ result[2] \in 0..255
       /\ result[1] \notin {40, 13, 10, 0} /\ result[2] \notin {40, 13, 10, 0}
       /\ arg.bytes = << 81, 80, 73, 71, 83 >> => result = << 183, 169 >>
       /\ arg.bytes = << 81, 77, 79, 68 >> => result = << 73, 193 >>

\* "RP" has the CRC 0x3228: the low byte is sent as 0x29
C20_Witness ==
  /\ fn = "crc_pi" /\ arg.bytes = << 82, 80 >>
  /\ result = << 50, 41 >>

\* C21: build_command returns the bytes of the command, then the two
\* bytes of crc_pi, high before low, then 0x0D: len(cmd) + 3 bytes, the
\* last one 0x0D, and no other 0x0D among the last three
C21_Frame ==
  fn = "build_command" =>
    LET n == Len(arg.text)
        crc == crc_pi(bytes_of(arg.text))
    IN /\ Len(result) = n + 3
       /\ \A i \in 1..n : result[i] = ord(arg.text[i])
       /\ result[n + 1] = crc[1] /\ result[n + 2] = crc[2]
       /\ result[n + 3] = 13
       /\ result[n + 1] # 13 /\ result[n + 2] # 13

\* "GRI" has the CRC 0x290D: the low byte is sent as 0x0E
C21_Witness ==
  /\ fn = "build_command" /\ arg.text = << "G", "R", "I" >>
  /\ result = << 71, 82, 73, 41, 14, 13 >>

\* the fragments of a response: the text after a leading "(" and before
\* the first ")", cut at the spaces, the empty pieces dropped
Fragments(line) ==
  LET l1 == IF line # << >> /\ Head(line) = "(" THEN Tail(line) ELSE line
      l2 == IF find(l1, ")") > 0 THEN SubSeq(l1, 1, find(l1, ")") - 1) ELSE l1
  IN split(l2)

\* C22: the tokens of a response are its fragments with every character
\* other than a digit, "+", "-" and "." removed, in order
\* ("(12.5 -3 abc1x)" gives 12.5, -3, 1); the empty string, and a
\* response all of whose fragments sanitise to nothing, give no token.
C22_Tokens ==
  fn = "tokenize" =>
    LET fr == Fragments(arg.text)
    IN /\ (\E i \in 1..Len(fr) : sanitize(fr[i]) # << >>) =>
            result = [i \in 1..Len(fr) |-> sanitize(fr[i])]
       /\ (\A i \in 1..Len(fr) : sanitize(fr[i]) = << >>) => result = << >>
       /\ arg.text = MixedLine =>
            result = << << "1", "2", ".", "5" >>, << "-", "3" >>, << "1" >> >>

\* fragments of a QPIGS2 answer that starts with "("
Pv2Fragments(r2) ==
  IF r2.kind = "text" /\ r2.text # << >> /\ Head(r2.text) = "("
  THEN Fragments(r2.text) ELSE << >>

\* C23: whatever the QPIGS2 query gives (nothing, an exception, fewer than
\* three tokens, tokens that do not parse), read_snapshot returns the
\* fields decoded from the QPIGS response, unchanged, plus exactly those of
\* the three pv2 keys whose token was decoded; fewer than three QPIGS2
\* tokens add no field; without a QPIGS response the record is empty and
\* QPIGS2 is not sent.
C23_Pv2Additive ==
  fn = "read_snapshot" =>
    IF arg.line.kind = "none"
    THEN result.data = EmptyRecord /\ result.sent = << "QPIGS" >>
    ELSE LET base == parse_qpigs_text(arg.line.text)
             fr == Pv2Fragments(arg.line2)
             d == result.data
             decoded(i) == /\ Len(fr) >= 3
                           /\ IsFloat(sanitize(fr[i]))
         IN /\ DOMAIN base \subseteq DOMAIN d
            /\ \A k \in DOMAIN base : d[k] = base[k]
            /\ DOMAIN d \ DOMAIN base
                 = {pv2_keys[i] : i \in {j \in 1..3 : decoded(j)}}
            /\ \A k \in DOMAIN d \ DOMAIN base : d[k].t \in {"int", "float"}
            /\ Len(fr) < 3 => d = base

\* "(1 1 1)" and the QPIGS2 answer "(1 V 1)": current and power are added,
\* the voltage is not
C23_Witness ==
  /\ fn = "read_snapshot" /\ arg.line.kind = "text"
  /\ arg.line2 = Text(<< "(", "1", " ", "V", " ", "1", ")" >>)
  /\ DOMAIN result.data =
       {"ac_input_voltage_v", "ac_input_frequency_hz", "ac_output_voltage_v",
        "pv2_input_current_a", "pv2_input_power_w"}
  /\ result.data["pv2_input_power_w"] = IntV(1)

\* the temperature keys of the Q1 record and their token positions
Q1TempPos ==
  [scc_pwm_temp_c |-> 6, inverter_temp_c |-> 7, battery_temp_c |-> 8,
   transformer_temp_c |-> 9]

\* C24: a decoded Q1 response always gives the four temperature keys, each
\* the integer of its token (positions 6..9 counted from 1) or 0 when the
\* token is absent or does not parse; sync_frequency_hz is present exactly
\* when the 16th token parses; charge_stage is present when there is a
\* 17th token: 10/11/12/13 as nocharging/bulk/absorb/float, any other
\* code as it is.
C24_Q1Record ==
  (fn = "query_q1" /\ arg.text # << >>) =>
    LET tk == ext_tokens(arg.text)
        tok(i) == sanitize(tk[i])
        code == SelectSeq(tk[17], IsDigit)
    IN /\ \A k \in DOMAIN Q1TempPos :
            /\ k \in DOMAIN result
            /\ result[k].t = "int"
            /\ LET i == Q1TempPos[k]
               IN result[k] =
                    IF i <= Len(tk) /\ IsInt(tok(i)) THEN py_int(tok(i))
                    ELSE IF i <= Len(tk) /\ IsFloat(tok(i))
                         THEN py_int_float(tok(i))
                    ELSE IntV(0)
       /\ "sync_frequency_hz" \in DOMAIN result
            <=> (16 <= Len(tk) /\ IsFloat(tok(16)))
       /\ "sync_frequency_hz" \in DOMAIN result =>
            result["sync_frequency_hz"] = py_float(tok(16))
       /\ "charge_stage" \in DOMAIN result <=> 17 <= Len(tk)
       /\ 17 <= Len(tk) =>
            result["charge_stage"] =
              StrV(CASE code = << "1", "0" >> ->
                          << "n", "o", "c", "h", "a", "r", "g", "i", "n", "g" >>
                     [] code = << "1", "1" >> -> << "b", "u", "l", "k" >>
                     [] code = << "1", "2" >> -> << "a", "b", "s", "o", "r", "b" >>
                     [] code = << "1", "3" >> -> << "f", "l", "o", "a", "t" >>
                     [] OTHER -> code)

\* "(1 1 1 1 1 V 1 1)": the token of scc_pwm_temp_c does not parse and
\* the one of transformer_temp_c is absent
C24_Witness ==
  /\ fn = "query_q1"
  /\ arg.text = Wrap("paren", join(TokensWith(8, 6, << "V" >>)))
  /\ result["scc_pwm_temp_c"] = IntV(0)
  /\ result["inverter_temp_c"] = IntV(1)
  /\ result["transformer_temp_c"] = IntV(0)
  /\ "sync_frequency_hz" \notin DOMAIN result
  /\ "charge_stage" \notin DOMAIN result

\* "14" at the 17th position of 17 tokens: the code is passed through
C24_Unknown ==
  /\ fn = "query_q1"
  /\ arg.text = Wrap("paren", join(TokensWith(17, 17, << "1", "4" >>)))
  /\ result["charge_stage"] = StrV(<< "1", "4" >>)

\* C25: without a connection to the message bus the scheduler goes on
\* cycle after cycle: the loop's error branch, which ends the cycle without
\* its sleep and recreates the sessions, is never entered.
C25_RunsOffline == ~connected => pc # "loop_error"

TurnOver(d) ==
  /\ pc \in CyclePcs \cup {"loop_error"}
  /\ inv > d \/ pc \in {"aggregate", "agg_publish", "sleep", "loop_error"}

\* the part of C27 on the timestamp: the return of query_qpiri stamps the
\* device whatever the response was, and QPIRI is sent only to a device
\* without a stamp of this outer iteration or with one older than 24 hours
C27_StampOnAttempt ==
  [][/\ (pc = "ret_QPIRI" /\ ~interrupted') => last_qpiri'[inv] = 0
     /\ (pc = "fwsn" /\ pc' = "query") => QpiriDue(last_qpiri[inv])]_vars

\* C27: a QPIRI attempt stamps the device whether or not it returned, and
\* QPIRI is attempted in the first cycle in which the device returns a
\* snapshot: once the turn of a device that returned a snapshot is over,
\* the device has a QPIRI timestamp.
C27_QpiriInFirstCycle ==
  \A d \in Devs :
    (TurnOver(d) /\ snap[d] # EmptyRecord) => last_qpiri[d] # NoEntry

\* Q1 went only to devices polled in a cycle whose count is a multiple of
\* the divisor, and the divisor is at least 2 whatever the interval
C28_OnMultiples ==
  /\ pc = "counters" =>
       \A ri \in (0 - MaxInterval)..MaxInterval : Q1DivisorOf(ri) >= 2
  /\ Q1Divisor >= 2
  /\ pc \in CyclePcs =>
       /\ loop_count >= 1
       /\ \A d \in Devs :
            "Q1" \in issued[d] => loop_count % Q1Divisor = 0
       /\ loop_count = 1 => \A d \in Devs : "Q1" \notin issued[d]

\* the counter is 0 when the sessions have been (re)created and 1 in the
\* cycle that follows
C28_CountsFromOne ==
  /\ (pc = "counters" /\ ~interrupted') => loop_count' = 0
  /\ (pc = "cycle" /\ loop_count = 0 /\ ~interrupted') => loop_count' = 1

\* C28: the Q1 divisor is at least 2 for every integer read_interval and
\* the cycle counter is 1 in the first cycle after the sessions were
\* (re)created, so that Q1 is not queried in that cycle; Q1 is queried
\* only in cycles whose count is a multiple of the divisor, so a device
\* without a snapshot in such a cycle waits for the next multiple.
C28_Q1NotInFirstCycle == []C28_OnMultiples /\ [][C28_CountsFromOne]_vars

\* read_interval 30, divisor 2: device 1 gave no snapshot in cycle 2 and
\* gives one in cycle 3, where it gets QMOD but no Q1
C28_Witness ==
  /\ cfg.read_interval = 30 /\ loop_count = 3 /\ pc = "sleep"
  /\ snap[1] # EmptyRecord /\ sinceQ1[1] = NoEntry
  /\ issued[1] \cap {"QMOD", "Q1"} = {"QMOD"}

====
